---- MODULE Spec2Model ----
(***************************************************************************)
(* Model of the intent router, the hybrid retrieval pipeline and the SQL   *)
(* pipeline of the product assistant (apps/api/src/api).                   *)
(*                                                                         *)
(* Texts are sequences of one-character strings, so that strip(), upper(), *)
(* startswith() and the substring test `in` are computed, not assumed.     *)
(* Python values that may be None are tagged records ([py |-> ...]); the   *)
(* floats 0.0 / 0.5 / 0.9 are kept as the literals the source writes.      *)
(***************************************************************************)
EXTENDS Integers, Sequences, FiniteSets, TLC

VARIABLES
    fn_in,          \* argument of the function under test (pure-function specifications)
    fn_out,         \* its return value or exception, None before the call
    router_graph,   \* router.py: module-level _router_graph
    builds,         \* history: number of executions of build_router_graph
    assigns,        \* history: number of assignments to _router_graph
    th,             \* per request thread: program counter and locals
    db_open,        \* relational store: the connections currently open, by number
    db_opened,      \* history: connections opened so far
    db_stmts        \* history: statements executed so far

vars == <<fn_in, fn_out, router_graph, builds, assigns, th, db_open, db_opened, db_stmts>>

(***************************************************************************)
(* Python values.                                                          *)
(***************************************************************************)
None      == [py |-> "None"]
Num(n)    == [py |-> "num", n |-> n]
Str(s)    == [py |-> "str", s |-> s]
Dict(d)   == [py |-> "dict", d |-> d]
List      == [py |-> "list"]
ListOf(S) == [py |-> "list", items |-> S]     \* a list without duplicates, as the set of its items
Tuple(xs) == [py |-> "tuple", items |-> xs]
Raise(e)  == [py |-> "raise", exc |-> e]

EmptyDict == Dict(<<>>)

\* dict.get(key) and dict.get(key, default) / dict.pop(key, default)
DictGet(dict, key, default) ==
    IF key \in DOMAIN dict.d THEN dict.d[key] ELSE default

(***************************************************************************)
(* Text primitives (Python str methods used by the source).                *)
(***************************************************************************)
LowerCase == <<"a","b","c","d","e","f","g","h","i","j","k","l","m",
               "n","o","p","q","r","s","t","u","v","w","x","y","z">>
UpperCase == <<"A","B","C","D","E","F","G","H","I","J","K","L","M",
               "N","O","P","Q","R","S","T","U","V","W","X","Y","Z">>

Whitespace == {" ", "\n", "\t"}

\* str.upper() on one character
UpperChar(c) ==
    IF \E i \in 1..Len(LowerCase) : LowerCase[i] = c
    THEN UpperCase[CHOOSE i \in 1..Len(LowerCase) : LowerCase[i] = c]
    ELSE c

\* str.upper()
Upper(s) == [i \in 1..Len(s) |-> UpperChar(s[i])]

\* str.strip(): drop leading and trailing whitespace
Strip(s) ==
    LET keep == {i \in 1..Len(s) : s[i] \notin Whitespace}
    IN  IF keep = {} THEN <<>>
        ELSE LET lo == CHOOSE i \in keep : \A j \in keep : i <= j
                 hi == CHOOSE i \in keep : \A j \in keep : j <= i
             IN  SubSeq(s, lo, hi)

\* str.startswith(p)
StartsWith(s, p) == Len(p) <= Len(s) /\ SubSeq(s, 1, Len(p)) = p

\* `p in s` for strings: p occurs as a contiguous substring of s
Contains(s, p) ==
    \E i \in 0..(Len(s) - Len(p)) : SubSeq(s, i + 1, i + Len(p)) = p

(***************************************************************************)
(* router.py: QueryIntent and classify_intent.                             *)
(***************************************************************************)
RAG    == [py |-> "QueryIntent", v |-> "rag"]
SQL    == [py |-> "QueryIntent", v |-> "sql"]
HYBRID == [py |-> "QueryIntent", v |-> "hybrid"]
QueryIntent == {RAG, SQL, HYBRID}

LabelRAG    == <<"R","A","G">>
LabelSQL    == <<"S","Q","L">>
LabelHYBRID == <<"H","Y","B","R","I","D">>

\* intent_map (router.py 110-114), as a set of <<key, value>> pairs
intent_map == { <<LabelRAG, RAG>>, <<LabelSQL, SQL>>, <<LabelHYBRID, HYBRID>> }

InIntentMap(key) == \E e \in intent_map : e[1] = key

\* intent_map.get(key, default)
IntentMapGet(key, default) ==
    IF InIntentMap(key) THEN (CHOOSE e \in intent_map : e[1] = key)[2] ELSE default

\* variant of classify_intent: the reply is upper-cased but not stripped
classify_intent_nostrip(content) ==
    LET result == Upper(content)
    IN  <<IntentMapGet(result, RAG), IF InIntentMap(result) THEN "0.9" ELSE "0.5">>

\* classify_intent, from the reply text of the classification call on
classify_intent(content) ==
    LET result == Upper(Strip(content))
    IN  <<IntentMapGet(result, RAG), IF InIntentMap(result) THEN "0.9" ELSE "0.5">>

(***************************************************************************)
(* Classification replies: a label in some letter case, or something else, *)
(* wrapped in optional whitespace.                                         *)
(***************************************************************************)
ReplyPads == { <<>>, <<" ">>, <<"\n">>, <<" ","\t">> }

ReplyCores == {
    <<"R","A","G">>,
    <<"r","a","g">>,
    <<"R","a","g">>,
    <<"S","Q","L">>,
    <<"s","q","l">>,
    <<"s","Q","l">>,
    <<"H","Y","B","R","I","D">>,
    <<"h","y","b","r","i","d">>,
    <<"H","y","b","r","i","d">>,
    <<>>,
    <<"R","A","G","S">>,
    <<"R"," ","A","G">>,
    <<"X","Y","Z">>,
    <<"H","Y","B","R","I","D",".">>,
    <<"S","Q">> }

ClassifierTexts == { pre \o core \o post : pre \in ReplyPads, core \in ReplyCores, post \in ReplyPads }

(***************************************************************************)
(* Threads and their idle state (filled in by the request machines).       *)
(***************************************************************************)
NumThreads == 2
Threads == 1..NumThreads

IdleThread == [pc |-> "idle"]

InitMachine ==
    /\ router_graph = None
    /\ builds = 0
    /\ assigns = 0
    /\ db_open = {}
    /\ db_opened = 0
    /\ db_stmts = 0

machine_vars == <<router_graph, builds, assigns, th, db_open, db_opened, db_stmts>>

(***************************************************************************)
(* Specification of classify_intent as a function of the reply text.       *)
(***************************************************************************)
InitClassify ==
    /\ fn_in \in { [fn |-> "classify_intent", content |-> c] : c \in ClassifierTexts }
    /\ fn_out = None
    /\ th = [t \in Threads |-> IdleThread]
    /\ InitMachine

CallClassifyIntent ==
    /\ fn_in.fn = "classify_intent"
    /\ fn_out = None
    /\ fn_out' = Tuple(classify_intent(fn_in.content))
    /\ UNCHANGED <<fn_in, machine_vars>>

NextClassify == CallClassifyIntent

SpecClassify == InitClassify /\ [][NextClassify]_vars

\* str.lower() on one character, used to compare texts ignoring case
LowerChar(c) ==
    IF \E i \in 1..Len(UpperCase) : UpperCase[i] = c
    THEN LowerCase[CHOOSE i \in 1..Len(UpperCase) : UpperCase[i] = c]
    ELSE c

SameIgnoringCase(a, b) ==
    /\ Len(a) = Len(b)
    /\ \A i \in 1..Len(a) : LowerChar(a[i]) = LowerChar(b[i])

\* C1: a reply that, trimmed and ignoring case, is one of the labels RAG / SQL /
\* HYBRID yields that intent with confidence 0.9; every other reply yields
\* (RAG, 0.5).
C1_ClassifyContract ==
    (fn_in.fn = "classify_intent" /\ fn_out # None) =>
        LET trimmed == Strip(fn_in.content)
        IN  /\ \A e \in intent_map :
                SameIgnoringCase(trimmed, e[1]) => fn_out = Tuple(<<e[2], "0.9">>)
            /\ (\A e \in intent_map : ~SameIgnoringCase(trimmed, e[1]))
                => fn_out = Tuple(<<RAG, "0.5">>)

\* C1 witness: a padded lower-case "hybrid" was classified HYBRID with 0.9
C1_Witness ==
    /\ fn_in.fn = "classify_intent"
    /\ fn_in.content = <<" ","\t">> \o <<"h","y","b","r","i","d">> \o <<"\n">>
    /\ fn_out = Tuple(<<HYBRID, "0.9">>)

(***************************************************************************)
(* router.py: extract_filters.                                             *)
(*                                                                         *)
(* The reply of the extraction call is a sequence of lines.  A line is a   *)
(* token: a code fence, a brace, one object member, a complete one-line    *)
(* JSON text, free prose, or a blank line.                                 *)
(***************************************************************************)
Fence(tag, indent) == [t |-> "fence", tag |-> tag, indent |-> indent]  \* ``` or ```json, possibly indented
FencedInline(v)    == [t |-> "fenced_inline", v |-> v]                 \* ```<json>``` on one line
LBrace             == [t |-> "lbrace"]
RBrace             == [t |-> "rbrace"]
Member(key, v)     == [t |-> "member", key |-> key, v |-> v]
Json(v)            == [t |-> "json", v |-> v]                          \* a complete JSON text on one line
Prose              == [t |-> "prose"]
Blank              == [t |-> "blank"]

\* str.strip() on the reply: leading and trailing blank lines go, and so does the
\* indentation of the first remaining line
StripLines(lines) ==
    LET keep == {i \in 1..Len(lines) : lines[i].t # "blank"}
    IN  IF keep = {} THEN <<>>
        ELSE LET lo == CHOOSE i \in keep : \A j \in keep : i <= j
                 hi == CHOOSE i \in keep : \A j \in keep : j <= i
                 cut == SubSeq(lines, lo, hi)
             IN  IF cut[1].t = "fence"
                 THEN <<Fence(cut[1].tag, FALSE)>> \o SubSeq(cut, 2, Len(cut))
                 ELSE cut

\* content.startswith("```")
StartsWithFence(lines) ==
    Len(lines) > 0 /\ lines[1].t \in {"fence", "fenced_inline"} /\
    (lines[1].t = "fence" => ~lines[1].indent)

\* line.strip() == "```"
IsBareFence(line) == line.t = "fence" /\ line.tag = ""

\* router.py 150-152: drop the first line, and the last one if it is a bare fence
CleanMarkdown(content) ==
    IF StartsWithFence(content)
    THEN IF IsBareFence(content[Len(content)])
         THEN SubSeq(content, 2, Len(content) - 1)
         ELSE SubSeq(content, 2, Len(content))
    ELSE content

JSONDecodeError == Raise("JSONDecodeError")

\* the members of a multi-line object, a later duplicate key replacing an earlier one
RECURSIVE MembersToDict(_)
MembersToDict(members) ==
    IF members = <<>> THEN <<>>
    ELSE LET last == members[Len(members)]
         IN  (last.key :> last.v) @@ MembersToDict(SubSeq(members, 1, Len(members) - 1))

\* json.loads of the joined lines: white space between tokens is insignificant; a
\* complete value, or "{" members "}", parses; anything else is a JSONDecodeError
JsonLoads(content) ==
    LET toks == SelectSeq(content, LAMBDA l : l.t # "blank")
        n    == Len(toks)
    IN  IF n = 1 /\ toks[1].t = "json" THEN toks[1].v
        ELSE IF /\ n >= 2
                /\ toks[1].t = "lbrace"
                /\ toks[n].t = "rbrace"
                /\ \A i \in 2..(n - 1) : toks[i].t = "member"
        THEN Dict(MembersToDict(SubSeq(toks, 2, n - 1)))
        ELSE JSONDecodeError

FilterKeys == {"min_price", "max_price", "min_rating", "category", "sort_by", "limit"}

\* variant of extract_filters: the fallback leaves the semantic query unset
extract_filters_fallback_none(question, raw) ==
    LET parsed == JsonLoads(CleanMarkdown(StripLines(raw)))
    IN  IF parsed = JSONDecodeError THEN Tuple(<<EmptyDict, None>>)
        ELSE IF parsed.py = "dict"
        THEN Tuple(<< Dict([k \in FilterKeys |-> DictGet(parsed, k, None)]),
                      DictGet(parsed, "semantic_query", Str(question)) >>)
        ELSE IF parsed.py = "list" THEN Raise("TypeError")
        ELSE Raise("AttributeError")

\* variant of extract_filters: the fallback leaves the filters unset
extract_filters_fallback_unset(question, raw) ==
    LET parsed == JsonLoads(CleanMarkdown(StripLines(raw)))
    IN  IF parsed = JSONDecodeError THEN Tuple(<<None, Str(question)>>)
        ELSE IF parsed.py = "dict"
        THEN Tuple(<< Dict([k \in FilterKeys |-> DictGet(parsed, k, None)]),
                      DictGet(parsed, "semantic_query", Str(question)) >>)
        ELSE IF parsed.py = "list" THEN Raise("TypeError")
        ELSE Raise("AttributeError")

\* extract_filters (router.py 147-167), from the reply of the extraction call on.
\* parsed.pop("semantic_query", question) exists only on a dict: a list raises
\* TypeError (list.pop takes one argument), any other value has no pop at all.
\* Only json.JSONDecodeError is caught.
extract_filters(question, raw) ==
    LET parsed == JsonLoads(CleanMarkdown(StripLines(raw)))
    IN  IF parsed = JSONDecodeError THEN Tuple(<<EmptyDict, Str(question)>>)
        ELSE IF parsed.py = "dict"
        THEN Tuple(<< Dict([k \in FilterKeys |-> DictGet(parsed, k, None)]),
                      DictGet(parsed, "semantic_query", Str(question)) >>)
        ELSE IF parsed.py = "list" THEN Raise("TypeError")
        ELSE Raise("AttributeError")

(***************************************************************************)
(* Questions and extraction replies.                                       *)
(***************************************************************************)
Question1 == <<"b","e","s","t"," ","m","i","c"," ","u","n","d","e","r"," ","$","1","0","0">>
Question2 == <<"h","o","w"," ","m","a","n","y"," ","p","r","o","d","u","c","t","s">>
Questions == {Question1, Question2}

SemanticPart == <<"b","e","s","t"," ","m","i","c">>
Electronics  == <<"e","l","e","c">>

ObjectPriceAndQuery ==
    <<LBrace, Member("max_price", Num(100)), Member("semantic_query", Str(SemanticPart)), RBrace>>
ObjectNoQuery ==
    <<Json(Dict([min_price |-> Num(20), min_rating |-> Num(4), category |-> Str(Electronics),
                 sort_by |-> None, limit |-> Num(5)]))>>
ObjectNullQuery ==
    <<Json(Dict([semantic_query |-> None, max_price |-> Num(0), brand |-> Str(Electronics)]))>>
ObjectNullQueryOnly ==
    <<Json(Dict([semantic_query |-> None]))>>
Truncated  == <<LBrace, Member("max_price", Num(100))>>
ExtraData  == <<Json(Dict([max_price |-> Num(100)])), Prose>>

ReplyBodies == {
    ObjectPriceAndQuery, ObjectNoQuery, ObjectNullQuery,
    <<Prose>>, <<>>, Truncated, ExtraData,
    <<Json(List)>>, <<Json(Num(42))>>, <<Json(None)>>, <<Json(Str(SemanticPart))>> }

ReplyOpen  == { <<>>, <<Fence("", FALSE)>>, <<Fence("json", FALSE)>>, <<Fence("json", TRUE)>> }
ReplyClose == { <<>>, <<Fence("", FALSE)>>, <<Fence("", TRUE)>> }
ReplyEdge  == { <<>>, <<Blank>> }

ExtractorTexts ==
    { lead \o open \o body \o close \o trail :
        lead \in ReplyEdge, open \in ReplyOpen, body \in ReplyBodies,
        close \in ReplyClose, trail \in ReplyEdge }
    \cup { <<FencedInline(Dict([max_price |-> Num(100)]))>> }

(***************************************************************************)
(* Specification of extract_filters as a function of question and reply.   *)
(***************************************************************************)
InitExtract ==
    /\ fn_in \in { [fn |-> "extract_filters", question |-> q, content |-> c] :
                     q \in Questions, c \in ExtractorTexts }
    /\ fn_out = None
    /\ th = [t \in Threads |-> IdleThread]
    /\ InitMachine

CallExtractFilters ==
    /\ fn_in.fn = "extract_filters"
    /\ fn_out = None
    /\ fn_out' = extract_filters(fn_in.question, fn_in.content)
    /\ UNCHANGED <<fn_in, machine_vars>>

NextExtract == CallExtractFilters

SpecExtract == InitExtract /\ [][NextExtract]_vars

\* the reply, stripped and with its fence wrapper removed, is not a JSON text
Unparseable(raw) == JsonLoads(CleanMarkdown(StripLines(raw))) = JSONDecodeError

\* C3: when the reply, after removal of an optional fence wrapper, cannot be parsed,
\* extract_filters returns exactly ({}, the unmodified question) and does not raise.
C3_ParseFailureFallback ==
    (fn_in.fn = "extract_filters" /\ fn_out # None /\ Unparseable(fn_in.content)) =>
        fn_out = Tuple(<<EmptyDict, Str(fn_in.question)>>)

\* C3 witness: a fenced reply holding a truncated object came back as ({}, question)
C3_Witness ==
    /\ fn_in.fn = "extract_filters"
    /\ fn_in.content = <<Fence("json", FALSE)>> \o Truncated \o <<Fence("", FALSE)>>
    /\ fn_in.question = Question1
    /\ fn_out = Tuple(<<EmptyDict, Str(Question1)>>)

\* the reply parses, and to a value that is not an object
ParsesToNonObject(raw) ==
    LET parsed == JsonLoads(CleanMarkdown(StripLines(raw)))
    IN  parsed # JSONDecodeError /\ parsed.py # "dict"

\* C15: whatever text the extraction call returns, also one that parses to a list,
\* a number, a string or null, extract_filters does not raise; such a reply is
\* answered like an unparseable one, with ({}, the unmodified question).
C15_ExtractNeverRaises ==
    (fn_in.fn = "extract_filters" /\ fn_out # None) =>
        /\ fn_out.py # "raise"
        /\ ParsesToNonObject(fn_in.content) => fn_out = Tuple(<<EmptyDict, Str(fn_in.question)>>)

(***************************************************************************)
(* The request machines.  A thread runs one call of an entry point; every  *)
(* action is the code between two external calls (or two accesses of the   *)
(* module-level _router_graph), together with the call's outcome.          *)
(***************************************************************************)
NewThread(entry, pc, question, filters, semantic_query, top_k) ==
    [ pc             |-> pc,
      entry          |-> entry,           \* the function the thread was asked to run
      caller         |-> entry,           \* the function waiting for route_query's result
      question       |-> question,
      graph          |-> None,            \* get_router: the graph just built, not yet assigned
      router         |-> None,            \* route_query: router = get_router()
      state          |-> None,            \* the RouterState inside the graph
      filters        |-> filters,         \* hybrid_pipeline / hybrid_retrieve: filters
      semantic_query |-> semantic_query,  \* hybrid_pipeline / hybrid_retrieve: semantic_query
      top_k          |-> top_k,           \* hybrid_pipeline: top_k, hybrid_retrieve: k
      given_k        |-> None,            \* history: the result size the caller passed, if any
      limit          |-> None,            \* history: limit of the query_points call
      given_sq       |-> semantic_query,  \* history: the semantic_query the caller passed
      embed_text     |-> None,            \* history: the text handed to get_embedding
      extract_reply  |-> None,            \* history: the reply of the extraction call
      pipelines      |-> <<>>,            \* history: pipelines invoked by chat, in order
      response       |-> None,            \* chat: the ChatResponse
      conn           |-> None,            \* get_asins_by_filter / execute_sql_query: conn
      classified     |-> None,            \* history: what classify_intent returned
      filtered_asins |-> None,            \* hybrid_retrieve: filtered_asins
      retrieved      |-> None,            \* hybrid_retrieve's return value
      prompt         |-> None,            \* hybrid_pipeline: prompt
      sql_query      |-> None,            \* sql_pipeline: sql_query
      routes         |-> 0,               \* history: calls of route_query
      failed         |-> "",              \* history: the external call that failed
      calls          |-> <<>>,            \* history: external calls, in order
      result         |-> None,            \* the entry point's return value
      error          |-> None ]           \* the exception that left the entry point

\* route_query 242-248: initial_state
initial_state(question) ==
    [ question       |-> question,
      intent         |-> None,
      filters        |-> None,
      semantic_query |-> None,
      confidence     |-> "0.0" ]

\* an external call fails: its exception leaves the entry point
Raised(thr, exc, call) ==
    [thr EXCEPT !.pc = "raised", !.error = Raise(exc), !.calls = Append(@, call),
                !.failed = call]

\* endpoints.py 84-89, 98-103, 107-112: the ChatResponse built from a pipeline's result
ChatResponse(answer, intent, filters) ==
    [answer |-> answer, intent |-> intent, filters |-> filters]

\* a pipeline returns: to its caller, or into chat, which builds its response
ChatReturn(thr, intent, filters) ==
    IF thr.entry = "chat"
    THEN [thr EXCEPT !.response = ChatResponse(thr.result.answer, intent, filters)]
    ELSE thr

(***************************************************************************)
(* router.py: get_router.  The test of _router_graph, the construction,    *)
(* the assignment and the final read are separate steps: nothing in        *)
(* get_router keeps another thread from running between them.              *)
(***************************************************************************)
GetRouterCheck(t) ==
    /\ th[t].pc = "get_router"
    /\ th' = [th EXCEPT ![t].pc = IF router_graph = None THEN "build" ELSE "get_router_return",
                        ![t].routes = @ + 1]
    /\ UNCHANGED <<fn_in, fn_out, router_graph, builds, assigns, db_open, db_opened, db_stmts>>

\* build_router_graph(): a new compiled workflow object, named by its build number
BuildRouterGraph(t) ==
    /\ th[t].pc = "build"
    /\ builds' = builds + 1
    /\ th' = [th EXCEPT ![t].pc = "assign", ![t].graph = [py |-> "graph", id |-> builds + 1]]
    /\ UNCHANGED <<fn_in, fn_out, router_graph, assigns, db_open, db_opened, db_stmts>>

AssignRouterGraph(t) ==
    /\ th[t].pc = "assign"
    /\ router_graph' = th[t].graph
    /\ assigns' = assigns + 1
    /\ th' = [th EXCEPT ![t].pc = "get_router_return"]
    /\ UNCHANGED <<fn_in, fn_out, builds, db_open, db_opened, db_stmts>>

\* return _router_graph; route_query then builds initial_state and invokes the graph
GetRouterReturn(t) ==
    /\ th[t].pc = "get_router_return"
    /\ th' = [th EXCEPT ![t].pc = "classify",
                        ![t].router = router_graph,
                        ![t].state = initial_state(th[t].question)]
    /\ UNCHANGED <<fn_in, fn_out, router_graph, builds, assigns, db_open, db_opened, db_stmts>>

(***************************************************************************)
(* sql_agent.py: the products table and get_asins_by_filter's query.       *)
(* A few hand-written rows (two variations of one parent, a row without a  *)
(* parent_asin) and BulkProducts uniform rows, so that the unfiltered      *)
(* query has more rows than the LIMIT.                                     *)
(***************************************************************************)
Asin(i) == [py |-> "asin", i |-> i]

CatElectronics == <<"E","l","e","c","t","r","o","n","i","c","s">>
CatHome        == <<"H","o","m","e">>

BulkProducts  == 101
ResolverLimit == 100      \* hybrid.py 36: limit=100

Row(asin, parent, price, rating, category) ==
    [asin |-> asin, parent_asin |-> parent, price |-> price,
     average_rating |-> rating, main_category |-> category]

Products ==
    { Row(1, Asin(1), 50, 5, CatElectronics),
      Row(2, Asin(1), 80, 4, CatElectronics),
      Row(3, Asin(2), 30, 4, CatElectronics),
      Row(4, Asin(3), 90, 2, CatHome),
      Row(5, None,    10, 5, CatElectronics) }
    \cup { Row(5 + i, Asin(3 + i), 500, 3, CatHome) : i \in 1..BulkProducts }

\* sql_agent.py 227-251: one condition per argument that is not None, joined by AND,
\* and parent_asin IS NOT NULL.  ILIKE '%category%' ignores case.
WhereClause(row, min_price, max_price, min_rating, category) ==
    /\ (min_price # None  => row.price >= min_price.n)
    /\ (max_price # None  => row.price <= max_price.n)
    /\ (min_rating # None => row.average_rating >= min_rating.n)
    /\ (category # None   => Contains(Upper(row.main_category), Upper(category.s)))
    /\ row.parent_asin # None

\* LIMIT n without ORDER BY: the first n values of the scan; the scan runs up or down
ScanOrders == {"up", "down"}

FirstN(S, n, order) ==
    { a \in S : Cardinality({ b \in S : IF order = "up" THEN b.i < a.i ELSE b.i > a.i }) < n }

\* variant of SelectDistinctParentAsin: the LIMIT clause is lost
SelectDistinctParentAsin_nolimit(min_price, max_price, min_rating, category, limit, order) ==
    { row.parent_asin : row \in { r \in Products : WhereClause(r, min_price, max_price, min_rating, category) } }

\* SELECT DISTINCT parent_asin FROM products WHERE ... LIMIT limit
SelectDistinctParentAsin(min_price, max_price, min_rating, category, limit, order) ==
    FirstN({ row.parent_asin : row \in
                { r \in Products : WhereClause(r, min_price, max_price, min_rating, category) } },
           limit, order)

(***************************************************************************)
(* hybrid.py: the vector collection and hybrid_retrieve's search.  A point *)
(* is one catalogue item, identified by its parent_asin payload; one item  *)
(* of the collection is not in the products table.                         *)
(***************************************************************************)
Point(i, rating) ==
    [parent_asin |-> Asin(i), description |-> <<"item", i>>, average_rating |-> rating]

Collection == { Point(1, 5), Point(2, 4), Point(3, 2), Point(999, 1) }

\* query_points(query_filter = parent_asin MatchAny filtered_asins, limit = k):
\* ranked lists of distinct points that pass the filter, at most k of them
QueryPoints(filtered_asins, k) ==
    LET eligible == { p \in Collection : p.parent_asin \in filtered_asins }
    IN  { hits \in UNION { [1..n -> eligible] : n \in 0..Cardinality(eligible) } :
            /\ Len(hits) <= k
            /\ \A i, j \in 1..Len(hits) : i # j => hits[i] # hits[j] }

\* the score of the hit at a rank: opaque, decreasing with the rank
ScoreAt(rank) == [py |-> "score", rank |-> rank]

\* hybrid.py 39-46: the result when no product passes the filters
EmptyRetrieval ==
    [ retrieved_context_ids     |-> <<>>,
      retrieved_context         |-> <<>>,
      retrieved_context_ratings |-> <<>>,
      similarity_scores         |-> <<>>,
      filter_count              |-> 0 ]

\* hybrid.py 68-86: the four parallel lists and filter_count
Retrieval(filtered_asins, hits) ==
    [ retrieved_context_ids     |-> [i \in 1..Len(hits) |-> hits[i].parent_asin],
      retrieved_context         |-> [i \in 1..Len(hits) |-> hits[i].description],
      retrieved_context_ratings |-> [i \in 1..Len(hits) |-> hits[i].average_rating],
      similarity_scores         |-> [i \in 1..Len(hits) |-> ScoreAt(i)],
      filter_count              |-> Cardinality(filtered_asins) ]

(***************************************************************************)
(* hybrid.py: format_hybrid_context and build_hybrid_prompt.  The rendered *)
(* text is kept as its parts: the header is the sequence of its segments,  *)
(* each a label and the value printed after it.                            *)
(***************************************************************************)
\* Python truthiness of a value
Truthy(v) ==
    CASE v.py = "None" -> FALSE
      [] v.py = "num"  -> v.n # 0
      [] v.py = "str"  -> v.s # <<>>
      [] v.py = "dict" -> DOMAIN v.d # {}
      [] OTHER         -> TRUE

Seg(label, value) == [label |-> label, value |-> value]

\* the segment written when filters.get(key) is truthy
SegIf(filters, key, label) ==
    IF Truthy(DictGet(filters, key, None)) THEN <<Seg(label, filters.d[key])>> ELSE <<>>

Min(a, b) == IF a <= b THEN a ELSE b

\* hybrid.py 93-114
format_hybrid_context(context, filters) ==
    [ header  |-> <<Seg("Filtered from", Num(context.filter_count))>>
                  \o SegIf(filters, "max_price", "max price")
                  \o SegIf(filters, "min_rating", "min rating")
                  \o SegIf(filters, "category", "category"),
      entries |-> [ i \in 1..Min(Min(Len(context.retrieved_context_ids),
                                     Len(context.retrieved_context)),
                                 Min(Len(context.retrieved_context_ratings),
                                     Len(context.similarity_scores))) |->
                    [ id          |-> context.retrieved_context_ids[i],
                      rating      |-> context.retrieved_context_ratings[i],
                      relevance   |-> context.similarity_scores[i],
                      description |-> context.retrieved_context[i] ] ] ]

\* hybrid.py 121-154: filter_summary, the context and the question
build_hybrid_prompt(formatted_context, question, filters) ==
    [ filter_summary |->
          (IF Truthy(DictGet(filters, "min_price", None)) \/ Truthy(DictGet(filters, "max_price", None))
           THEN <<Seg("Price", <<SegIf(filters, "min_price", "from"), SegIf(filters, "max_price", "up to")>>)>>
           ELSE <<>>)
          \o SegIf(filters, "min_rating", "Rating")
          \o SegIf(filters, "category", "Category"),
      context  |-> formatted_context,
      question |-> question ]

(***************************************************************************)
(* Specification of format_hybrid_context as a function of its arguments.  *)
(***************************************************************************)
HeaderKeys   == {"min_price", "max_price", "min_rating", "category"}
FilterValues == { None, Num(0), Num(50), Str(CatElectronics) }

FilterDicts == { Dict(d) : d \in UNION { [K -> FilterValues] : K \in SUBSET HeaderKeys } }

Contexts == { EmptyRetrieval,
              Retrieval({Asin(1), Asin(2), Asin(3)}, <<Point(2, 4), Point(1, 5)>>) }

InitFormat ==
    /\ fn_in \in { [fn |-> "format_hybrid_context", context |-> c, filters |-> f] :
                     c \in Contexts, f \in FilterDicts }
    /\ fn_out = None
    /\ th = [t \in Threads |-> IdleThread]
    /\ InitMachine

CallFormatHybridContext ==
    /\ fn_in.fn = "format_hybrid_context"
    /\ fn_out = None
    /\ fn_out' = format_hybrid_context(fn_in.context, fn_in.filters)
    /\ UNCHANGED <<fn_in, machine_vars>>

NextFormat == CallFormatHybridContext

SpecFormat == InitFormat /\ [][NextFormat]_vars

\* a filter field is present when the filters have it and it is not None
Present(filters, key) == key \in DOMAIN filters.d /\ filters.d[key] # None

HeaderLabel ==
    [ min_price |-> "min price", max_price |-> "max price",
      min_rating |-> "min rating", category |-> "category" ]

Mentions(header, key) == \E i \in 1..Len(header) : header[i].label = HeaderLabel[key]

\* C10: the header reports candidate_count and mentions exactly the active filters:
\* each of min_price, max_price, min_rating, category that is present appears, each
\* that is absent is omitted.
C10_HeaderMentionsActiveFilters ==
    (fn_in.fn = "format_hybrid_context" /\ fn_out # None) =>
        /\ fn_out.header[1] = Seg("Filtered from", Num(fn_in.context.filter_count))
        /\ \A key \in HeaderKeys : Present(fn_in.filters, key) <=> Mentions(fn_out.header, key)

(***************************************************************************)
(* hybrid.py: hybrid_pipeline and hybrid_retrieve.                         *)
(***************************************************************************)
RaisedLocal(thr, exc) == [thr EXCEPT !.pc = "raised", !.error = Raise(exc)]

\* dict.get(key, default) on a RouterState
StateGet(state, key, default) == IF key \in DOMAIN state THEN state[key] ELSE default

\* hybrid_retrieve 31-37: filters.get(...) needs a dict; then the resolver is called
HybridRetrieveBegin(thr) ==
    IF thr.filters = None THEN RaisedLocal(thr, "AttributeError")
    ELSE [thr EXCEPT !.pc = "get_asins"]

\* hybrid_retrieve returns: to its caller, or into hybrid_pipeline 217-224
HybridRetrieveReturn(thr, retrieved) ==
    IF thr.entry = "hybrid_retrieve"
    THEN [thr EXCEPT !.pc = "done", !.retrieved = retrieved, !.result = retrieved]
    ELSE [thr EXCEPT !.pc = "generate", !.retrieved = retrieved]

\* variant of HybridPipelineRetrieve: an unset semantic query is passed on as it is
HybridPipelineRetrieve_no_default(thr) ==
    HybridRetrieveBegin(thr)

\* hybrid_pipeline 206-215: the semantic query defaults to the question
HybridPipelineRetrieve(thr) ==
    HybridRetrieveBegin(
        [thr EXCEPT !.semantic_query = IF @ = None THEN Str(thr.question) ELSE @])

\* hybrid_pipeline 202-204: filters and semantic_query out of the routing result
HybridPipelineAfterRoute(thr, route_result) ==
    HybridPipelineRetrieve(
        [thr EXCEPT !.filters = StateGet(route_result, "filters", EmptyDict),
                    !.semantic_query = StateGet(route_result, "semantic_query", Str(thr.question))])

\* hybrid_pipeline 200-207, up to its first external call
HybridPipeline(t) ==
    /\ th[t].pc = "hybrid_pipeline"
    /\ th' = [th EXCEPT ![t] =
                IF th[t].filters = None
                THEN [th[t] EXCEPT !.pc = "get_router", !.caller = "hybrid_pipeline"]
                ELSE HybridPipelineRetrieve(th[t])]
    /\ UNCHANGED <<fn_in, fn_out, router_graph, builds, assigns, db_open, db_opened, db_stmts>>

\* a direct call of hybrid_retrieve
HybridRetrieve(t) ==
    /\ th[t].pc = "hybrid_retrieve"
    /\ th' = [th EXCEPT ![t] = HybridRetrieveBegin(th[t])]
    /\ UNCHANGED <<fn_in, fn_out, router_graph, builds, assigns, db_open, db_opened, db_stmts>>

\* variant of AfterResolver: no short-circuit on an empty candidate list
AfterResolver_no_short_circuit(thr, asins) ==
    [thr EXCEPT !.filtered_asins = ListOf(asins), !.pc = "embed"]

\* hybrid_retrieve 39-49: an empty candidate list returns at once, otherwise embed
AfterResolver(thr, asins) ==
    IF asins = {}
    THEN HybridRetrieveReturn([thr EXCEPT !.filtered_asins = ListOf(asins)], EmptyRetrieval)
    ELSE [thr EXCEPT !.filtered_asins = ListOf(asins), !.pc = "embed"]

\* get_asins_by_filter 256: conn = get_db_connection()
GetAsinsConnect(t) ==
    /\ th[t].pc = "get_asins"
    /\ \/ /\ db_open' = db_open \cup {db_opened + 1}
          /\ db_opened' = db_opened + 1
          /\ th' = [th EXCEPT ![t].pc = "get_asins_execute", ![t].calls = Append(@, "resolver"),
                              ![t].conn = Num(db_opened + 1)]
       \/ /\ th' = [th EXCEPT ![t] = Raised(th[t], "OperationalError", "resolver")]
          /\ UNCHANGED <<db_open, db_opened>>
    /\ UNCHANGED <<fn_in, fn_out, router_graph, builds, assigns, db_stmts>>

\* get_asins_by_filter 257-262: execute and fetch, the connection closed in the
\* finally clause; then hybrid_retrieve 39-46 on an empty list
GetAsinsExecute(t) ==
    /\ th[t].pc = "get_asins_execute"
    /\ db_open' = db_open \ {th[t].conn.n}
    /\ \/ /\ \E order \in ScanOrders :
                LET f     == th[t].filters
                    asins == SelectDistinctParentAsin(
                                 DictGet(f, "min_price", None), DictGet(f, "max_price", None),
                                 DictGet(f, "min_rating", None), DictGet(f, "category", None),
                                 ResolverLimit, order)
                IN  th' = [th EXCEPT ![t] = AfterResolver(th[t], asins)]
          /\ db_stmts' = db_stmts + 1
       \/ /\ th' = [th EXCEPT ![t] = [RaisedLocal(th[t], "DatabaseError") EXCEPT !.failed = "resolver"]]
          /\ UNCHANGED db_stmts
    /\ UNCHANGED <<fn_in, fn_out, router_graph, builds, assigns, db_opened>>

\* hybrid_retrieve 49: query_embedding = get_embedding(semantic_query)
GetEmbedding(t) ==
    /\ th[t].pc = "embed"
    /\ \/ th' = [th EXCEPT ![t].pc = "search", ![t].calls = Append(@, "embed"),
                           ![t].embed_text = th[t].semantic_query]
       \/ th' = [th EXCEPT ![t] = Raised([th[t] EXCEPT !.embed_text = th[t].semantic_query],
                                         "EmbeddingError", "embed")]
    /\ UNCHANGED <<fn_in, fn_out, router_graph, builds, assigns, db_open, db_opened, db_stmts>>

\* variant of QueryPointsCall: a failed search is answered with an empty result
QueryPointsCall_downgrade(t) ==
    /\ th[t].pc = "search"
    /\ \/ \E hits \in QueryPoints(th[t].filtered_asins.items, th[t].top_k) :
            th' = [th EXCEPT ![t] =
                      HybridRetrieveReturn([th[t] EXCEPT !.calls = Append(@, "search"),
                                                         !.limit = Num(th[t].top_k)],
                                           Retrieval(th[t].filtered_asins.items, hits))]
       \/ th' = [th EXCEPT ![t] =
                    HybridRetrieveReturn([th[t] EXCEPT !.calls = Append(@, "search"),
                                                       !.failed = "search"],
                                         EmptyRetrieval)]
    /\ UNCHANGED <<fn_in, fn_out, router_graph, builds, assigns, db_open, db_opened, db_stmts>>

\* hybrid_retrieve 52-86: the filtered search with limit=k and the result lists
QueryPointsCall(t) ==
    /\ th[t].pc = "search"
    /\ \/ \E hits \in QueryPoints(th[t].filtered_asins.items, th[t].top_k) :
            th' = [th EXCEPT ![t] =
                      HybridRetrieveReturn([th[t] EXCEPT !.calls = Append(@, "search"),
                                                         !.limit = Num(th[t].top_k)],
                                           Retrieval(th[t].filtered_asins.items, hits))]
       \/ th' = [th EXCEPT ![t] = Raised([th[t] EXCEPT !.limit = Num(th[t].top_k)],
                                         "SearchError", "search")]
    /\ UNCHANGED <<fn_in, fn_out, router_graph, builds, assigns, db_open, db_opened, db_stmts>>

GeneratedAnswer == [py |-> "generated"]

\* variant of HybridGenerate: with no candidates a canned answer is returned and the
\* generation call is skipped
HybridGenerate_skip_empty(t) ==
    /\ th[t].pc = "generate"
    /\ LET thr       == th[t]
           formatted == format_hybrid_context(thr.retrieved, thr.filters)
           prompt    == build_hybrid_prompt(formatted, thr.question, thr.filters)
           called    == [thr EXCEPT !.prompt = prompt,
                                    !.calls = @ \o (IF thr.retrieved.filter_count = 0
                                                    THEN <<"format">>
                                                    ELSE <<"format", "generate">>)]
       IN  \/ th' = [th EXCEPT ![t] =
                      ChatReturn(
                        [called EXCEPT
                            !.pc = "done",
                            !.result =
                                [ answer                |-> GeneratedAnswer,
                                  question              |-> thr.question,
                                  intent                |-> "hybrid",
                                  filters               |-> thr.filters,
                                  semantic_query        |-> thr.semantic_query,
                                  retrieved_context_ids |-> thr.retrieved.retrieved_context_ids,
                                  retrieved_context     |-> thr.retrieved.retrieved_context,
                                  similarity_scores     |-> thr.retrieved.similarity_scores,
                                  filter_count          |-> thr.retrieved.filter_count ]],
                        "hybrid", thr.filters)]
           \/ th' = [th EXCEPT ![t] = [called EXCEPT !.pc = "raised", !.error = Raise("APIError"),
                                                       !.failed = "generate"]]
    /\ UNCHANGED <<fn_in, fn_out, router_graph, builds, assigns, db_open, db_opened, db_stmts>>

\* hybrid_pipeline 217-236: format, build the prompt, generate, return
HybridGenerate(t) ==
    /\ th[t].pc = "generate"
    /\ LET thr       == th[t]
           formatted == format_hybrid_context(thr.retrieved, thr.filters)
           prompt    == build_hybrid_prompt(formatted, thr.question, thr.filters)
           called    == [thr EXCEPT !.prompt = prompt, !.calls = @ \o <<"format", "generate">>]
       IN  \/ th' = [th EXCEPT ![t] =
                      ChatReturn(
                        [called EXCEPT
                            !.pc = "done",
                            !.result =
                                [ answer                |-> GeneratedAnswer,
                                  question              |-> thr.question,
                                  intent                |-> "hybrid",
                                  filters               |-> thr.filters,
                                  semantic_query        |-> thr.semantic_query,
                                  retrieved_context_ids |-> thr.retrieved.retrieved_context_ids,
                                  retrieved_context     |-> thr.retrieved.retrieved_context,
                                  similarity_scores     |-> thr.retrieved.similarity_scores,
                                  filter_count          |-> thr.retrieved.filter_count ]],
                        "hybrid", thr.filters)]
           \/ th' = [th EXCEPT ![t] = [called EXCEPT !.pc = "raised", !.error = Raise("APIError"),
                                                       !.failed = "generate"]]
    /\ UNCHANGED <<fn_in, fn_out, router_graph, builds, assigns, db_open, db_opened, db_stmts>>

(***************************************************************************)
(* router.py: the graph's nodes and edge, and route_query's return.        *)
(***************************************************************************)
\* replies of the classification call seen by the request machines
ClassifierReplies == { <<" ","h","y","b","r","i","d","\n">>, <<"R","A","G">>, <<"s","q","l">>, <<"X","Y","Z">> }

\* replies of the extraction call seen by the request machines
ExtractorReplies ==
    { <<Fence("json", FALSE)>> \o ObjectPriceAndQuery \o <<Fence("", FALSE)>>,
      ObjectNoQuery, ObjectNullQuery, ObjectNullQueryOnly, <<Prose>>, <<Json(List)>>,
      <<Json(None)>> }

\* variant of should_extract_filters: every classified query goes to extraction
should_extract_filters_always(state) == "extract"

\* router.py 190-194
should_extract_filters(state) ==
    IF state.intent = HYBRID THEN "extract" ELSE "done"

\* chat 77-106: the pipeline is chosen by the routed intent; hybrid_pipeline gets the
\* routed filters and semantic_query and no top_k
ChatDispatch(thr, route_result) ==
    LET intent == route_result.intent
    IN  IF intent = SQL
        THEN [thr EXCEPT !.pc = "sql_pipeline", !.pipelines = Append(@, "sql")]
        ELSE IF intent = HYBRID
        THEN [thr EXCEPT !.pc = "hybrid_pipeline", !.pipelines = Append(@, "hybrid"),
                         !.filters = StateGet(route_result, "filters", None),
                         !.semantic_query = StateGet(route_result, "semantic_query", None)]
        ELSE [thr EXCEPT !.pc = "rag_pipeline", !.pipelines = Append(@, "rag")]

\* route_query 250-251 returns the graph's final state to whoever called it
RouteReturn(thr, state) ==
    IF thr.caller = "hybrid_pipeline"
    THEN HybridPipelineAfterRoute([thr EXCEPT !.state = state], state)
    ELSE IF thr.caller = "chat"
    THEN ChatDispatch([thr EXCEPT !.state = state], state)
    ELSE [thr EXCEPT !.pc = "done", !.state = state, !.result = state]

\* variant of ClassifyNode: the classifier step also fills in semantic_query
ClassifyNode_sets_semantic_query(t) ==
    /\ th[t].pc = "classify"
    /\ \/ \E reply \in ClassifierReplies :
            LET ic    == classify_intent(reply)
                thr   == [th[t] EXCEPT !.calls = Append(@, "classify"),
                                       !.classified = Tuple(ic)]
                state == [thr.state EXCEPT !.intent = ic[1], !.confidence = ic[2],
                                           !.semantic_query = Str(thr.question)]
            IN  th' = [th EXCEPT ![t] =
                          IF should_extract_filters(state) = "extract"
                          THEN [thr EXCEPT !.pc = "extract_filters", !.state = state]
                          ELSE RouteReturn(thr, state)]
       \/ th' = [th EXCEPT ![t] = Raised(th[t], "APIError", "classify")]
    /\ UNCHANGED <<fn_in, fn_out, router_graph, builds, assigns, db_open, db_opened, db_stmts>>

\* classify_node 170-177 and the conditional edge 210-217
ClassifyNode(t) ==
    /\ th[t].pc = "classify"
    /\ \/ \E reply \in ClassifierReplies :
            LET ic    == classify_intent(reply)
                thr   == [th[t] EXCEPT !.calls = Append(@, "classify"),
                                       !.classified = Tuple(ic)]
                state == [thr.state EXCEPT !.intent = ic[1], !.confidence = ic[2]]
            IN  th' = [th EXCEPT ![t] =
                          IF should_extract_filters(state) = "extract"
                          THEN [thr EXCEPT !.pc = "extract_filters", !.state = state]
                          ELSE RouteReturn(thr, state)]
       \/ th' = [th EXCEPT ![t] = Raised(th[t], "APIError", "classify")]
    /\ UNCHANGED <<fn_in, fn_out, router_graph, builds, assigns, db_open, db_opened, db_stmts>>

\* extract_filters_node 180-187 and the edge to END 219
ExtractFiltersNode(t) ==
    /\ th[t].pc = "extract_filters"
    /\ \/ \E reply \in ExtractorReplies :
            LET thr == [th[t] EXCEPT !.calls = Append(@, "extract"),
                                     !.extract_reply = [py |-> "reply", lines |-> reply]]
                fs  == extract_filters(thr.state.question, reply)
            IN  th' = [th EXCEPT ![t] =
                          IF fs.py = "raise"
                          THEN [thr EXCEPT !.pc = "raised", !.error = fs]
                          ELSE RouteReturn(thr, [thr.state EXCEPT !.filters = fs.items[1],
                                                                  !.semantic_query = fs.items[2]])]
       \/ th' = [th EXCEPT ![t] = Raised(th[t], "APIError", "extract")]
    /\ UNCHANGED <<fn_in, fn_out, router_graph, builds, assigns, db_open, db_opened, db_stmts>>

(***************************************************************************)
(* SpecRouter: every thread runs route_query; the threads race on the      *)
(* first use of _router_graph.                                             *)
(***************************************************************************)
InitRouter ==
    /\ fn_in = None
    /\ fn_out = None
    /\ th \in [Threads -> { NewThread("route_query", "get_router", q, None, None, 0) : q \in Questions }]
    /\ InitMachine

RouterStep(t) ==
    \/ GetRouterCheck(t)
    \/ BuildRouterGraph(t)
    \/ AssignRouterGraph(t)
    \/ GetRouterReturn(t)
    \/ ClassifyNode(t)
    \/ ExtractFiltersNode(t)

NextRouter == \E t \in Threads : RouterStep(t)

SpecRouter == InitRouter /\ [][NextRouter]_vars

(***************************************************************************)
(* Spec: one request thread runs hybrid_pipeline or hybrid_retrieve.       *)
(***************************************************************************)
MaxTopK      == 3
DefaultTopK  == 5      \* hybrid.py 188: top_k: int = 5
DefaultK     == 10     \* hybrid.py 21: k: int = 10

GivenFilters ==
    { EmptyDict,
      Dict([max_price |-> Num(100)]),
      Dict([min_rating |-> Num(5)]),
      Dict([max_price |-> Num(0), category |-> Str(Electronics)]) }

\* result sizes a caller can pass; None stands for an omitted argument
GivenSizes == {None} \cup { Num(k) : k \in 1..MaxTopK }

\* a call of an entry point: an omitted result size takes the parameter's default
EntryCall(entry, question, filters, semantic_query, given, default) ==
    [ NewThread(entry, entry, question, filters, semantic_query,
                IF given = None THEN default ELSE given.n)
      EXCEPT !.given_k = given ]

PipelineCalls ==
    { EntryCall("hybrid_pipeline", q, f, sq, k, DefaultTopK) :
        q \in Questions, f \in {None} \cup GivenFilters,
        sq \in {None, Str(SemanticPart)}, k \in GivenSizes }
    \cup
    { EntryCall("hybrid_retrieve", Question1, f, Str(SemanticPart), k, DefaultK) :
        f \in GivenFilters, k \in GivenSizes }

Init ==
    /\ fn_in = None
    /\ fn_out = None
    /\ th \in { [t \in Threads |-> IF t = 1 THEN c ELSE IdleThread] : c \in PipelineCalls }
    /\ InitMachine

PipelineStep(t) ==
    \/ HybridPipeline(t)
    \/ HybridRetrieve(t)
    \/ GetAsinsConnect(t)
    \/ GetAsinsExecute(t)
    \/ GetEmbedding(t)
    \/ QueryPointsCall(t)
    \/ HybridGenerate(t)

Next == \E t \in Threads : RouterStep(t) \/ PipelineStep(t)

Spec == Init /\ [][Next]_vars

(***************************************************************************)
(* Properties of the router (SpecRouter).                                  *)
(***************************************************************************)
Count(seq, x) == Cardinality({ i \in 1..Len(seq) : seq[i] = x })

\* C2: with intent RAG or SQL the extractor is never invoked and the returned state
\* has filters and semantic_query unset; with intent HYBRID the extractor is invoked
\* exactly once, after the classifier, and the returned state has filters set.
C2_ExtractorOnlyForHybrid ==
    \A t \in Threads :
        LET thr == th[t]
        IN  thr.pc # "idle" =>
              /\ Count(thr.calls, "extract") <= 1
              /\ Count(thr.calls, "classify") <= 1
              /\ (thr.state # None /\ thr.state.intent \in {RAG, SQL}) =>
                    /\ Count(thr.calls, "extract") = 0
                    /\ thr.state.filters = None
                    /\ thr.state.semantic_query = None
              /\ (thr.pc = "done" /\ thr.result.intent \in {RAG, SQL}) =>
                    /\ thr.calls = <<"classify">>
                    /\ thr.result.filters = None
                    /\ thr.result.semantic_query = None
              /\ (thr.pc = "done" /\ thr.result.intent = HYBRID) =>
                    /\ thr.calls = <<"classify", "extract">>
                    /\ thr.result.filters # None

\* C2 witness: a route_query run returned a HYBRID state with filters, after exactly
\* one classification and one extraction
C2_Witness ==
    \E t \in Threads :
        /\ th[t].pc = "done"
        /\ th[t].result.intent = HYBRID
        /\ th[t].result.filters # None
        /\ th[t].calls = <<"classify", "extract">>

\* C6: however the first calls of get_router interleave, the workflow is built at
\* most once, every caller gets the same object, and the module-level reference is
\* assigned at most once.
C6_BuiltOnce ==
    /\ builds <= 1
    /\ assigns <= 1
    /\ \A t, u \in Threads :
          (th[t].router # None /\ th[u].router # None) => th[t].router = th[u].router

\* one step of the machine, seen from thread t's RouterState: the classifier step
\* leaves question, filters and semantic_query alone, the extractor step leaves
\* question, intent and confidence alone, route_query's start installs the initial
\* state of its own question, and no other step (of t or of another thread) touches it
RouterStateFrame(t) ==
    LET pc  == th[t].pc
        old == th[t].state
        new == th'[t].state
    IN  /\ pc = "classify" =>
              /\ new.question = old.question
              /\ new.filters = old.filters
              /\ new.semantic_query = old.semantic_query
        /\ pc = "extract_filters" =>
              /\ new.question = old.question
              /\ new.intent = old.intent
              /\ new.confidence = old.confidence
        /\ pc = "get_router_return" => new \in {old, initial_state(th[t].question)}
        /\ pc \notin {"classify", "extract_filters", "get_router_return"} => new = old
        /\ \A u \in Threads \ {t} : th'[u] # th[u] => new = old

\* the RouterState of a run holds the run's question; the returned state is the
\* run's state and carries the classifier's intent and confidence
RouterStateOwn(t) ==
    /\ th[t].state # None => th[t].state.question = th[t].question
    /\ (th[t].state # None /\ th[t].classified # None) =>
          Tuple(<<th[t].state.intent, th[t].state.confidence>>) = th[t].classified
    /\ th[t].pc = "done" =>
          /\ th[t].result = th[t].state
          /\ th[t].result.question = th[t].question
          /\ Tuple(<<th[t].result.intent, th[t].result.confidence>>) = th[t].classified

\* C17: within a route_query run the RouterState is changed by its own steps only:
\* the classifier step changes intent and confidence and nothing else, the extractor
\* step changes filters and semantic_query and nothing else, so the returned state
\* has the input question and the classifier's intent and confidence; the states of
\* concurrent runs do not affect one another.
C17_RouterStateFrame ==
    /\ [][\A t \in Threads : RouterStateFrame(t)]_vars
    /\ [](\A t \in Threads : RouterStateOwn(t))

\* C17 witness: two concurrent runs on different questions both returned, one HYBRID
\* with extracted filters, one SQL, each with its own question
C17_Witness ==
    \E t, u \in Threads :
        /\ th[t].pc = "done"
        /\ th[u].pc = "done"
        /\ th[t].question # th[u].question
        /\ th[t].result.question = th[t].question
        /\ th[t].result.intent = HYBRID
        /\ th[t].result.filters # None
        /\ th[t].classified = Tuple(<<HYBRID, "0.9">>)
        /\ th[u].result.question = th[u].question
        /\ th[u].result.intent = SQL
        /\ th[u].result.filters = None

(***************************************************************************)
(* Properties of hybrid_retrieve and hybrid_pipeline (Spec).               *)
(***************************************************************************)
Active(t) == th[t].pc # "idle"

\* C4: when the resolver returns no candidates, the result has its four lists empty
\* and filter_count 0, and neither the embedding nor the search is called.
C4_EmptyCandidatesShortCircuit ==
    \A t \in Threads :
        (Active(t) /\ th[t].filtered_asins # None /\ th[t].filtered_asins.items = {}) =>
            /\ th[t].retrieved # None
            /\ th[t].retrieved.retrieved_context_ids = <<>>
            /\ th[t].retrieved.retrieved_context = <<>>
            /\ th[t].retrieved.retrieved_context_ratings = <<>>
            /\ th[t].retrieved.similarity_scores = <<>>
            /\ th[t].retrieved.filter_count = 0
            /\ Count(th[t].calls, "embed") = 0
            /\ Count(th[t].calls, "search") = 0

\* C4 witness: hybrid_retrieve returned the empty result after the resolver alone
C4_Witness ==
    \E t \in Threads :
        /\ Active(t)
        /\ th[t].entry = "hybrid_retrieve"
        /\ th[t].pc = "done"
        /\ th[t].filtered_asins = ListOf({})
        /\ th[t].result = EmptyRetrieval
        /\ th[t].calls = <<"resolver">>

\* C5: with a non-empty candidate set of size C (C <= 100 whatever top_k and the
\* filters' limit are) and top_k = k, the four returned lists have one length L,
\* L <= min(k, C), and filter_count = C; in every result filter_count >= L.
C5_ResultLengths ==
    \A t \in Threads :
        (Active(t) /\ th[t].retrieved # None) =>
            LET r == th[t].retrieved
                C == Cardinality(th[t].filtered_asins.items)
                L == Len(r.retrieved_context_ids)
            IN  /\ r.filter_count >= L
                /\ C > 0 =>
                    /\ C <= 100
                    /\ Len(r.retrieved_context) = L
                    /\ Len(r.retrieved_context_ratings) = L
                    /\ Len(r.similarity_scores) = L
                    /\ L <= Min(th[t].top_k, C)
                    /\ r.filter_count = C

\* C5 witness: the unfiltered query hit the resolver's limit of 100 candidates and the
\* search returned exactly top_k = 2 of them
C5_Witness ==
    \E t \in Threads :
        /\ Active(t)
        /\ th[t].retrieved # None
        /\ th[t].retrieved.filter_count = 100
        /\ th[t].top_k = 2
        /\ Len(th[t].retrieved.retrieved_context_ids) = 2

\* route_query has returned into hybrid_pipeline
RouteReturned(thr) ==
    /\ thr.caller = "hybrid_pipeline"
    /\ thr.state # None
    /\ \/ thr.state.intent \in {RAG, SQL}
       \/ thr.state.intent = HYBRID /\ thr.state.filters # None

ExternalFailures == {"classify", "extract", "resolver", "embed", "search", "generate"}

\* C7: called with filters omitted, hybrid_pipeline routes exactly once, before the
\* resolver, and then carries on to retrieval and generation with the routed filters
\* and semantic query, whatever the routing outcome: only a failing external call
\* stops it.
C7_OmittedFiltersCompletes ==
    \A t \in Threads :
        (Active(t) /\ th[t].entry = "hybrid_pipeline" /\ RouteReturned(th[t])) =>
            /\ th[t].routes = 1
            /\ th[t].calls[1] = "classify"
            /\ th[t].filters = th[t].state.filters
            /\ th[t].pc = "raised" => th[t].failed \in ExternalFailures

\* C9: a failure of the classification, the resolver, the embedding or the search
\* leaves the request with that call's exception: the call is made once, nothing is
\* called after it, and nothing is returned.
C9_FailurePropagates ==
    \A t \in Threads :
        (Active(t) /\ th[t].failed \in {"classify", "resolver", "embed", "search"}) =>
            /\ th[t].pc = "raised"
            /\ th[t].error # None
            /\ th[t].result = None
            /\ th[t].retrieved = None
            /\ Count(th[t].calls, th[t].failed) = 1
            /\ th[t].calls[Len(th[t].calls)] = th[t].failed

\* C9 witness: the search failed after resolver and embedding, and the request raised
C9_Witness ==
    \E t \in Threads :
        /\ Active(t)
        /\ th[t].entry = "hybrid_pipeline"
        /\ th[t].pc = "raised"
        /\ th[t].failed = "search"
        /\ th[t].error = Raise("SearchError")
        /\ th[t].calls = <<"resolver", "embed", "search">>

\* what the extraction call's reply parsed to, inside a pipeline that routed
ExtractionOf(thr) == JsonLoads(CleanMarkdown(StripLines(thr.extract_reply.lines)))

\* the extraction produced a semantic_query that is a text
ExtractedText(thr) ==
    LET parsed == ExtractionOf(thr)
    IN  parsed.py = "dict" /\ DictGet(parsed, "semantic_query", None).py = "str"

\* the extraction left semantic_query unset (absent or null) or did not parse
ExtractedNothing(thr) ==
    LET parsed == ExtractionOf(thr)
    IN  \/ parsed = JSONDecodeError
        \/ parsed.py = "dict" /\ DictGet(parsed, "semantic_query", None) = None

\* C12: the text hybrid_pipeline hands to the embedding is never unset: it is the
\* extracted semantic_query when the extraction produced a text, and the question
\* verbatim when semantic_query is unset (omitted by the caller, absent or null in
\* the extraction reply) or the extraction failed to parse.
C12_EmbeddingTextSet ==
    \A t \in Threads :
        (Active(t) /\ th[t].entry = "hybrid_pipeline" /\ Count(th[t].calls, "embed") > 0) =>
            LET thr == th[t]
            IN  /\ thr.embed_text # None
                /\ (thr.routes = 0 /\ thr.given_sq # None) => thr.embed_text = thr.given_sq
                /\ (thr.routes = 0 /\ thr.given_sq = None) => thr.embed_text = Str(thr.question)
                /\ (thr.routes > 0 /\ ExtractedText(thr)) =>
                        thr.embed_text = ExtractionOf(thr).d["semantic_query"]
                /\ (thr.routes > 0 /\ ExtractedNothing(thr)) =>
                        thr.embed_text = Str(thr.question)

\* C12 witness: the pipeline routed, the extraction reply held a null semantic_query,
\* and the question itself was embedded
C12_Witness ==
    \E t \in Threads :
        /\ Active(t)
        /\ th[t].entry = "hybrid_pipeline"
        /\ th[t].routes = 1
        /\ th[t].extract_reply # None
        /\ th[t].extract_reply.lines = ObjectNullQueryOnly
        /\ Count(th[t].calls, "embed") = 1
        /\ th[t].embed_text = Str(th[t].question)

\* C11: the similarity search is issued with limit equal to the result size the
\* caller passed, and with limit 5 whenever the caller passed none, whether the caller
\* entered through hybrid_pipeline or through hybrid_retrieve.
C11_SearchLimitIsTopK ==
    \A t \in Threads :
        (Active(t) /\ th[t].entry \in {"hybrid_pipeline", "hybrid_retrieve"} /\ th[t].limit # None) =>
            /\ th[t].given_k # None => th[t].limit = th[t].given_k
            /\ th[t].given_k = None => th[t].limit = Num(5)

(***************************************************************************)
(* sql_agent.py: generate_sql_query, execute_sql_query and sql_pipeline.   *)
(***************************************************************************)
Newline == "\n"

\* str.split("\n")
RECURSIVE SplitLines(_)
SplitLines(s) ==
    IF \A i \in 1..Len(s) : s[i] # Newline THEN <<s>>
    ELSE LET i == CHOOSE i \in 1..Len(s) : s[i] = Newline /\ \A j \in 1..(i - 1) : s[j] # Newline
         IN  <<SubSeq(s, 1, i - 1)>> \o SplitLines(SubSeq(s, i + 1, Len(s)))

\* "\n".join(lines)
RECURSIVE JoinLines(_)
JoinLines(lines) ==
    IF Len(lines) = 0 THEN <<>>
    ELSE IF Len(lines) = 1 THEN lines[1]
    ELSE lines[1] \o <<Newline>> \o JoinLines(Tail(lines))

\* the backquote character, written as a word
Tick == "backquote"
Backticks == <<Tick, Tick, Tick>>

\* generate_sql_query 79-86: the reply stripped and its code fence removed
CleanSql(reply) ==
    LET sql == Strip(reply)
    IN  IF StartsWith(sql, Backticks)
        THEN LET lines == SplitLines(sql)
             IN  JoinLines(IF lines[Len(lines)] = Backticks
                           THEN SubSeq(lines, 2, Len(lines) - 1)
                           ELSE SubSeq(lines, 2, Len(lines)))
        ELSE sql

KwSelect == <<"S","E","L","E","C","T">>

\* variant of forbidden: DROP is missing from the list
forbidden_without_drop == { <<"I","N","S","E","R","T">>, <<"U","P","D","A","T","E">>, <<"D","E","L","E","T","E">>, <<"T","R","U","N","C","A","T","E">>, <<"A","L","T","E","R">>, <<"C","R","E","A","T","E">> }

\* execute_sql_query 102
forbidden == { <<"I","N","S","E","R","T">>, <<"U","P","D","A","T","E">>, <<"D","E","L","E","T","E">>, <<"D","R","O","P">>, <<"T","R","U","N","C","A","T","E">>, <<"A","L","T","E","R">>, <<"C","R","E","A","T","E">> }

\* execute_sql_query 98-105: the ValueError raised by the security check, or None
SecurityCheck(sql) ==
    LET sql_upper == Strip(Upper(sql))
    IN  IF ~StartsWith(sql_upper, KwSelect) THEN Raise("ValueError")
        ELSE IF \E word \in forbidden : Contains(sql_upper, word) THEN Raise("ValueError")
        ELSE None

\* sql_pipeline 196-203: the result returned when execute_sql_query raised
SqlErrorResult(thr, sql_query, exc) ==
    ChatReturn(
        [thr EXCEPT !.pc = "done",
                    !.error = exc,
                    !.result = [ answer    |-> [py |-> "error_text", of |-> exc.exc],
                                 question  |-> thr.question,
                                 sql_query |-> sql_query,
                                 results   |-> <<>>,
                                 error     |-> exc.exc ]],
        "sql", None)

\* replies of the SQL generation call
SqlPads  == { <<>>, <<" ">>, <<Newline>> }
SqlVerbs == {
    <<"S","E","L","E","C","T">>,
    <<"s","e","l","e","c","t">>,
    <<"S","e","l","e","c","t">>,
    <<"W","I","T","H"," ","x"," ","A","S">>,
    <<"D","R","O","P">>,
    <<"d","e","l","e","t","e">>,
    <<"E","X","P","L","A","I","N"," ","S","E","L","E","C","T">>,
    <<>> }
SqlTails == {
    <<" ","*"," ","F","R","O","M"," ","t">>,
    <<" ","c","r","e","a","t","e","d","_","a","t"," ","F","R","O","M"," ","t">>,
    <<" ","1",";"," ","d","r","o","p"," ","T","A","B","L","E"," ","t">>,
    <<" ","U","p","d","a","t","e","_","t","i","m","e"," ","F","R","O","M"," ","t">>,
    <<" ","1",";"," ","I","N","S","E","R","T"," ","I","N","T","O"," ","t">>,
    <<>> }
SqlStatements == { pad \o verb \o tail : pad \in SqlPads, verb \in SqlVerbs, tail \in SqlTails }
SqlReplies ==
    SqlStatements
    \cup { Backticks \o <<"s","q","l",Newline>> \o q \o <<Newline>> \o Backticks : q \in SqlStatements }
    \cup { Backticks \o <<Newline>> \o q : q \in SqlStatements }

\* sql_pipeline 191-195: generate_sql_query, then execute_sql_query up to its
\* connection (the security check)
GenerateSqlQuery(t) ==
    /\ th[t].pc = "sql_pipeline"
    /\ \/ \E reply \in SqlReplies :
            LET sql_query == CleanSql(reply)
                thr       == [th[t] EXCEPT !.calls = Append(@, "generate_sql"),
                                           !.sql_query = Str(sql_query)]
                check     == SecurityCheck(sql_query)
            IN  th' = [th EXCEPT ![t] =
                          IF check # None THEN SqlErrorResult(thr, Str(sql_query), check)
                          ELSE [thr EXCEPT !.pc = "sql_connect"]]
       \/ th' = [th EXCEPT ![t] = Raised(th[t], "APIError", "generate_sql")]
    /\ UNCHANGED <<fn_in, fn_out, router_graph, builds, assigns, db_open, db_opened, db_stmts>>

\* execute_sql_query 107: conn = get_db_connection(), inside sql_pipeline's try
SqlConnect(t) ==
    /\ th[t].pc = "sql_connect"
    /\ \/ /\ db_open' = db_open \cup {db_opened + 1}
          /\ db_opened' = db_opened + 1
          /\ th' = [th EXCEPT ![t].pc = "sql_execute", ![t].calls = Append(@, "connect"),
                              ![t].conn = Num(db_opened + 1)]
       \/ /\ th' = [th EXCEPT ![t] =
                      SqlErrorResult([th[t] EXCEPT !.calls = Append(@, "connect")],
                                     th[t].sql_query, Raise("OperationalError"))]
          /\ UNCHANGED <<db_open, db_opened>>
    /\ UNCHANGED <<fn_in, fn_out, router_graph, builds, assigns, db_stmts>>

SqlRows == { <<>>, <<[parent_asin |-> Asin(1)]>> }

\* variant of SqlExecute: the connection is closed after a successful fetch only
SqlExecute_leak(t) ==
    /\ th[t].pc = "sql_execute"
    /\ \/ /\ \E rows \in SqlRows :
                th' = [th EXCEPT ![t].pc = "sql_answer", ![t].retrieved = ListOf(rows)]
          /\ db_stmts' = db_stmts + 1
          /\ db_open' = db_open \ {th[t].conn.n}
       \/ /\ th' = [th EXCEPT ![t] = SqlErrorResult(th[t], th[t].sql_query, Raise("DatabaseError"))]
          /\ UNCHANGED <<db_stmts, db_open>>
    /\ UNCHANGED <<fn_in, fn_out, router_graph, builds, assigns, db_opened>>

\* execute_sql_query 108-115: execute and fetch, the connection closed in the
\* finally clause
SqlExecute(t) ==
    /\ th[t].pc = "sql_execute"
    /\ db_open' = db_open \ {th[t].conn.n}
    /\ \/ /\ \E rows \in SqlRows :
                th' = [th EXCEPT ![t].pc = "sql_answer", ![t].retrieved = ListOf(rows)]
          /\ db_stmts' = db_stmts + 1
       \/ /\ th' = [th EXCEPT ![t] = SqlErrorResult(th[t], th[t].sql_query, Raise("DatabaseError"))]
          /\ UNCHANGED db_stmts
    /\ UNCHANGED <<fn_in, fn_out, router_graph, builds, assigns, db_opened>>

\* sql_pipeline 206-214: generate_sql_answer and the result
GenerateSqlAnswer(t) ==
    /\ th[t].pc = "sql_answer"
    /\ \/ th' = [th EXCEPT ![t] =
                    ChatReturn(
                        [th[t] EXCEPT
                            !.pc = "done",
                            !.calls = Append(@, "generate_answer"),
                            !.result = [ answer       |-> GeneratedAnswer,
                                         question     |-> th[t].question,
                                         sql_query    |-> th[t].sql_query,
                                         results      |-> th[t].retrieved.items,
                                         result_count |-> Len(th[t].retrieved.items) ]],
                        "sql", None)]
       \/ th' = [th EXCEPT ![t] = Raised(th[t], "APIError", "generate_answer")]
    /\ UNCHANGED <<fn_in, fn_out, router_graph, builds, assigns, db_open, db_opened, db_stmts>>

(***************************************************************************)
(* SpecSql: one request thread runs sql_pipeline.                          *)
(***************************************************************************)
InitSql ==
    /\ fn_in = None
    /\ fn_out = None
    /\ th \in { [t \in Threads |->
                   IF t = 1 THEN NewThread("sql_pipeline", "sql_pipeline", q, None, None, 0)
                   ELSE IdleThread] : q \in Questions }
    /\ InitMachine

SqlStep(t) ==
    \/ GenerateSqlQuery(t)
    \/ SqlConnect(t)
    \/ SqlExecute(t)
    \/ GenerateSqlAnswer(t)

NextSql == \E t \in Threads : SqlStep(t)

SpecSql == InitSql /\ [][NextSql]_vars

\* a statement is a SELECT when, leading white space and letter case aside, it begins
\* with that keyword
BeginsWithSelect(sql) ==
    LET body == Strip(sql)
    IN  Len(body) >= Len(KwSelect) /\ SameIgnoringCase(SubSeq(body, 1, Len(KwSelect)), KwSelect)

\* the statement holds the keyword somewhere, in whatever letter case
MentionsKeyword(sql, word) ==
    \E i \in 0..(Len(sql) - Len(word)) : SameIgnoringCase(SubSeq(sql, i + 1, i + Len(word)), word)

WriteKeywords == { <<"I","N","S","E","R","T">>, <<"U","P","D","A","T","E">>, <<"D","E","L","E","T","E">>, <<"D","R","O","P">>, <<"T","R","U","N","C","A","T","E">>, <<"A","L","T","E","R">>, <<"C","R","E","A","T","E">> }

\* C8: a generated query that does not start with SELECT, or that contains one of the
\* write keywords, is rejected before any connection is opened or statement executed,
\* and sql_pipeline returns a result with an error answer and no rows, not an
\* exception.
C8_UnsafeQueryRejected ==
    \A t \in Threads :
        (Active(t) /\ th[t].sql_query # None /\
         (~BeginsWithSelect(th[t].sql_query.s) \/
          \E word \in WriteKeywords : MentionsKeyword(th[t].sql_query.s, word))) =>
            /\ db_opened = 0
            /\ db_stmts = 0
            /\ th[t].calls = <<"generate_sql">>
            /\ th[t].pc = "done"
            /\ th[t].result.answer = [py |-> "error_text", of |-> "ValueError"]
            /\ th[t].result.results = <<>>

\* C8 witness: a SELECT followed by a lower-case drop statement was rejected with an
\* error result and no connection
C8_Witness ==
    \E t \in Threads :
        /\ Active(t)
        /\ th[t].sql_query = Str(<<"S","E","L","E","C","T"," ","1",";"," ","d","r","o","p"," ","T","A","B","L","E"," ","t">>)
        /\ th[t].pc = "done"
        /\ th[t].result.answer = [py |-> "error_text", of |-> "ValueError"]
        /\ db_opened = 0

(***************************************************************************)
(* endpoints.py: chat.  SpecChat: one request thread runs the chat         *)
(* endpoint, which routes and then runs the pipeline of the routed intent. *)
(***************************************************************************)
\* chat 76: route_result = route_query(payload.query)
Chat(t) ==
    /\ th[t].pc = "chat"
    /\ th' = [th EXCEPT ![t].pc = "get_router", ![t].caller = "chat"]
    /\ UNCHANGED <<fn_in, fn_out, router_graph, builds, assigns, db_open, db_opened, db_stmts>>

\* chat 106-112: rag_pipeline(payload.query, qdrant_client) answers or raises
RagPipeline(t) ==
    /\ th[t].pc = "rag_pipeline"
    /\ \/ th' = [th EXCEPT ![t] =
                    ChatReturn([th[t] EXCEPT !.pc = "done",
                                             !.calls = Append(@, "rag_pipeline"),
                                             !.result = [answer |-> GeneratedAnswer]],
                               "rag", None)]
       \/ th' = [th EXCEPT ![t] = Raised(th[t], "APIError", "rag_pipeline")]
    /\ UNCHANGED <<fn_in, fn_out, router_graph, builds, assigns, db_open, db_opened, db_stmts>>

InitChat ==
    /\ fn_in = None
    /\ fn_out = None
    /\ th \in { [t \in Threads |->
                   IF t = 1 THEN EntryCall("chat", q, None, None, None, DefaultTopK)
                   ELSE IdleThread] : q \in Questions }
    /\ InitMachine

ChatStep(t) ==
    \/ Chat(t)
    \/ RouterStep(t)
    \/ SqlStep(t)
    \/ RagPipeline(t)
    \/ HybridPipeline(t)
    \/ GetAsinsConnect(t)
    \/ GetAsinsExecute(t)
    \/ GetEmbedding(t)
    \/ QueryPointsCall(t)
    \/ HybridGenerate(t)

NextChat == \E t \in Threads : ChatStep(t)

SpecChat == InitChat /\ [][NextChat]_vars

IsPrefix(a, b) == Len(a) <= Len(b) /\ SubSeq(b, 1, Len(a)) = a

\* the calls of a hybrid chat request, without and with candidates
CallsNoCandidates == <<"classify", "extract", "resolver", "format", "generate">>
CallsCandidates   == <<"classify", "extract", "resolver", "embed", "search", "format", "generate">>

\* C13: a hybrid request served by chat makes its calls in the order classifier,
\* extractor, resolver, (embedding, search, only with candidates), formatter,
\* generation; each call at most once, one after the other; a served request has
\* called the generation exactly once, with or without candidates.
C13_HybridCallOrder ==
    \A t \in Threads :
        LET thr == th[t]
        IN  (Active(t) /\ thr.entry = "chat" /\ thr.state # None /\ thr.state.intent = HYBRID) =>
              /\ IsPrefix(thr.calls, CallsNoCandidates) \/ IsPrefix(thr.calls, CallsCandidates)
              /\ Count(thr.calls, "embed") > 0 =>
                    thr.filtered_asins # None /\ thr.filtered_asins.items # {}
              /\ (thr.filtered_asins # None /\ thr.filtered_asins.items = {}) =>
                    IsPrefix(thr.calls, CallsNoCandidates)
              /\ thr.pc = "done" =>
                    /\ thr.calls = IF thr.filtered_asins.items = {}
                                   THEN CallsNoCandidates ELSE CallsCandidates
                    /\ Count(thr.calls, "generate") = 1

\* C13 witness: a hybrid chat request without candidates was answered after
\* classifier, extractor, resolver, formatter and one generation call
C13_Witness ==
    \E t \in Threads :
        /\ Active(t)
        /\ th[t].entry = "chat"
        /\ th[t].pc = "done"
        /\ th[t].response # None
        /\ th[t].response.intent = "hybrid"
        /\ th[t].filtered_asins = ListOf({})
        /\ th[t].calls = CallsNoCandidates

\* the intent field chat puts in its response for a routed intent
IntentName(intent) ==
    IF intent = SQL THEN "sql" ELSE IF intent = HYBRID THEN "hybrid" ELSE "rag"

\* C16: a chat request calls route_query, and so the classifier, once: for a HYBRID
\* intent hybrid_pipeline is handed filters that are set and does not route again;
\* once routing has returned exactly one pipeline is invoked, the one of the routed
\* intent, and the response carries that intent.
C16_ChatRoutesOnce ==
    \A t \in Threads :
        LET thr == th[t]
        IN  (Active(t) /\ thr.entry = "chat") =>
              /\ thr.routes <= 1
              /\ Count(thr.calls, "classify") <= 1
              /\ Len(thr.pipelines) <= 1
              /\ thr.pipelines # <<>> =>
                    /\ thr.routes = 1
                    /\ Count(thr.calls, "classify") = 1
                    /\ thr.pipelines = <<IntentName(thr.state.intent)>>
              /\ thr.pipelines = <<"hybrid">> => thr.filters # None
              /\ (thr.state # None /\ thr.state.intent \in {RAG, SQL}) =>
                    Len(thr.pipelines) = 1
              /\ (thr.state # None /\ thr.state.intent = HYBRID /\ thr.state.filters # None) =>
                    thr.pipelines = <<"hybrid">>
              /\ thr.pc = "done" =>
                    /\ thr.routes = 1
                    /\ Len(thr.pipelines) = 1
                    /\ thr.response # None
                    /\ thr.response.intent = thr.pipelines[1]

\* C16 witness: a chat request routed HYBRID whose extraction reply did not parse was
\* served by the hybrid pipeline with empty filters after a single routing
C16_Witness ==
    \E t \in Threads :
        /\ Active(t)
        /\ th[t].entry = "chat"
        /\ th[t].pc = "done"
        /\ th[t].routes = 1
        /\ th[t].extract_reply # None
        /\ th[t].extract_reply.lines = <<Prose>>
        /\ th[t].filters = EmptyDict
        /\ th[t].pipelines = <<"hybrid">>
        /\ th[t].response.intent = "hybrid"

(***************************************************************************)
(* SpecStore: two requests use the relational store at the same time, one  *)
(* through hybrid_retrieve (get_asins_by_filter), one through sql_pipeline *)
(* (execute_sql_query).                                                    *)
(***************************************************************************)
InitStore ==
    /\ fn_in = None
    /\ fn_out = None
    /\ th \in { [t \in Threads |->
                   IF t = 1
                   THEN EntryCall("hybrid_retrieve", Question1, f, Str(SemanticPart), Num(1), DefaultK)
                   ELSE IF t = 2
                   THEN NewThread("sql_pipeline", "sql_pipeline", Question2, None, None, 0)
                   ELSE IdleThread] : f \in GivenFilters }
    /\ InitMachine

StoreStep(t) ==
    \/ HybridRetrieve(t)
    \/ GetAsinsConnect(t)
    \/ GetAsinsExecute(t)
    \/ GetEmbedding(t)
    \/ QueryPointsCall(t)
    \/ SqlStep(t)

NextStore == \E t \in Threads : StoreStep(t)

SpecStore == InitStore /\ [][NextStore]_vars

\* the threads inside get_asins_by_filter or execute_sql_query, after the connect
Holding == { t \in Threads : th[t].pc \in {"get_asins_execute", "sql_execute"} }

\* no call of an entry point is under way
Quiescent == \A t \in Threads : th[t].pc \in {"idle", "done", "raised"}

\* C14: a call of get_asins_by_filter or execute_sql_query that opened a connection
\* closes that connection before it returns or raises, also when the execution
\* fails: the open connections are exactly those of the calls under way, and none is
\* open once all calls are complete.
C14_ConnectionsClosed ==
    /\ db_open = { th[t].conn.n : t \in Holding }
    /\ \A t, u \in Holding : t # u => th[t].conn # th[u].conn
    /\ \A t \in Threads \ Holding :
          (Active(t) /\ th[t].conn # None) => th[t].conn.n \notin db_open
    /\ Quiescent => db_open = {}

\* C14 witness: both calls opened a connection, the resolver's execution failed, the
\* SQL pipeline's succeeded, and no connection is left open
C14_Witness ==
    /\ Quiescent
    /\ db_opened = 2
    /\ db_open = {}
    /\ th[1].error = Raise("DatabaseError")
    /\ th[1].conn # None
    /\ th[2].pc = "done"
    /\ th[2].conn # None
    /\ th[2].conn # th[1].conn

====
